---- MODULE Spec2Model ----
(***************************************************************************)
(* Healthcare chat assistant (src/app.py): the transcript store, the       *)
(* emergency detector, the conversation composer, the model gateway and    *)
(* the HTTP handlers.                                                      *)
(*                                                                         *)
(* A text is a sequence of symbols.  A symbol is one code point, written   *)
(* as the character itself when it is ASCII and as "U+XXXX" otherwise.     *)
(* The fixed reply texts, which the code only passes along and never       *)
(* inspects, are held as texts of one symbol.                              *)
(***************************************************************************)
EXTENDS Naturals, Sequences, FiniteSets

VARIABLES
    file,        \* chat_history.json: missing, corrupt, or a list of turns
    clock,       \* the last reading of datetime.now(), the local wall clock
    req,         \* per worker: the chat request it is serving and its locals
    last,        \* the response sent last
    nreq,        \* number of responses sent
    log,         \* turns of the chats answered 200 since the transcript was
                 \* last emptied, in answer order
    overlapped,  \* a request was handled while another one was in progress
    faulted,     \* a read or a write of the file failed
    stepped,     \* a reading of the wall clock was earlier than the one before
    cHistory,    \* composer: the transcript given
    cInput,      \* composer: the new message given
    cMessages,   \* composer: the outbound messages built
    gError,      \* gateway: the text of the upstream error
    gReply,      \* gateway: the warning returned for it
    apiKey,      \* OPENAI_API_KEY
    diag         \* the body returned by /api/test

vars == <<file, clock, req, last, nreq, log, overlapped, faulted, stepped,
          cHistory, cInput, cMessages, gError, gReply,
          apiKey, diag>>

httpVars == <<file, clock, req, last, nreq, log, overlapped, faulted, stepped>>
composerVars == <<cHistory, cInput, cMessages>>
gatewayVars == <<gError, gReply>>
diagVars == <<apiKey, diag>>

-----------------------------------------------------------------------------
(* Bounds *)

\* requests of a run of the store scenario
MaxRequests == 3
\* requests of a run of the chat and threaded scenarios
MaxChatRequests == 2
\* readings of the wall clock are 0..MaxClock
MaxClock == 1
\* composer: turns before the varied ones, each with both texts
MaxEarlier == 5
\* composer: latest turns, each with or without either text
MaxVaried == 5
\* gateway: fragments joined into an error text
MaxFragments == 2
\* diagnostics: length of the API key
MaxKeyLen == 22

-----------------------------------------------------------------------------
(* Text primitives: str.strip, str.lower, the `in` operator on str *)

WHITESPACE == {" ", "\t", "\n"}

ASCII_UPPER == <<"A", "B", "C", "D", "E", "F", "G", "H", "I", "J", "K", "L", "M",
                 "N", "O", "P", "Q", "R", "S", "T", "U", "V", "W", "X", "Y", "Z">>
ASCII_LOWER == <<"a", "b", "c", "d", "e", "f", "g", "h", "i", "j", "k", "l", "m",
                 "n", "o", "p", "q", "r", "s", "t", "u", "v", "w", "x", "y", "z">>

LowerSym(c) ==
    IF \E i \in 1..Len(ASCII_UPPER) : ASCII_UPPER[i] = c
    THEN ASCII_LOWER[CHOOSE i \in 1..Len(ASCII_UPPER) : ASCII_UPPER[i] = c]
    ELSE c

lower(s) == [i \in 1..Len(s) |-> LowerSym(s[i])]

RECURSIVE lstrip(_)
lstrip(s) ==
    IF s # <<>> /\ Head(s) \in WHITESPACE THEN lstrip(Tail(s)) ELSE s

RECURSIVE rstrip(_)
rstrip(s) ==
    IF s # <<>> /\ s[Len(s)] \in WHITESPACE
    THEN rstrip(SubSeq(s, 1, Len(s) - 1))
    ELSE s

strip_Nothing(s) == s

strip(s) == rstrip(lstrip(s))

\* sub in s
Contains(sub, s) ==
    \E i \in 0..(Len(s) - Len(sub)) : SubSeq(s, i + 1, i + Len(sub)) = sub

-----------------------------------------------------------------------------
(* Emergency detector *)

EMERGENCY_KEYWORDS == <<
    <<"c", "h", "e", "s", "t", " ", "p", "a", "i", "n">>,
    <<"d", "i", "f", "f", "i", "c", "u", "l", "t", "y", " ", "b", "r", "e", "a", "t", "h", "i", "n", "g">>,
    <<"s", "h", "o", "r", "t", "n", "e", "s", "s", " ", "o", "f", " ", "b", "r", "e", "a", "t", "h">>,
    <<"s", "e", "v", "e", "r", "e", " ", "p", "a", "i", "n">>,
    <<"u", "n", "c", "o", "n", "s", "c", "i", "o", "u", "s">>,
    <<"h", "e", "a", "r", "t", " ", "a", "t", "t", "a", "c", "k">>,
    <<"s", "t", "r", "o", "k", "e">>,
    <<"b", "l", "e", "e", "d", "i", "n", "g", " ", "h", "e", "a", "v", "i", "l", "y">>,
    <<"U+0938", "U+0940", "U+0928", "U+0947", " ", "U+092E", "U+0947", "U+0902", " ", "U+0926", "U+0930", "U+094D", "U+0926">>,
    <<"U+0938", "U+093E", "U+0902", "U+0938", " ", "U+0932", "U+0947", "U+0928", "U+0947", " ", "U+092E", "U+0947", "U+0902", " ", "U+0926", "U+093F", "U+0915", "U+094D", "U+0915", "U+0924">>,
    <<"U+092C", "U+0947", "U+0939", "U+094B", "U+0936", "U+0940">>,
    <<"U+0924", "U+0947", "U+091C", " ", "U+0926", "U+0930", "U+094D", "U+0926">> >>

\* keyword.lower() of every keyword
KeywordsLower == [k \in 1..Len(EMERGENCY_KEYWORDS) |-> lower(EMERGENCY_KEYWORDS[k])]

detect_emergency_CaseSensitive(text) ==
    \E k \in 1..Len(KeywordsLower) : Contains(KeywordsLower[k], text)

detect_emergency(text) ==
    LET text_lower == lower(text)
    IN \E k \in 1..Len(KeywordsLower) : Contains(KeywordsLower[k], text_lower)

EMERGENCY_REPLY ==
    <<"This may be an emergency! Please seek urgent medical help immediately: Call 102 (Ambulance), Call 108 (Emergency), Visit nearest hospital. Your safety is the priority!">>

-----------------------------------------------------------------------------
(* Chat turns and the transcript store *)

Turn(user, bot, timestamp, is_emergency) ==
    [user |-> user, bot |-> bot, timestamp |-> timestamp,
     is_emergency |-> is_emergency]

NoFile == [kind |-> "missing", data |-> <<>>]
CorruptFile == [kind |-> "corrupt", data |-> <<>>]
JsonFile(history) == [kind |-> "ok", data |-> history]

\* outcome of opening and reading the file / of opening and writing it
ReadOutcomes == {"ok", "error"}
WriteOutcomes == {"ok", "open_error", "write_error"}

load_chat_history_Empty(f, r) == <<>>

\* json.load gives back the list json.dump wrote: turns hold only str and bool
load_chat_history(f, r) ==
    IF f.kind = "missing" THEN <<>>
    ELSE IF f.kind = "ok" /\ r = "ok" THEN f.data
    ELSE <<>>

ReadFailed(f, r) == f.kind # "missing" /\ (f.kind = "corrupt" \/ r = "error")

\* open(..., 'w') truncates the file before json.dump writes it
save_chat_history(f, history, w) ==
    CASE w = "ok" -> JsonFile(history)
      [] w = "open_error" -> f
      [] w = "write_error" -> CorruptFile

-----------------------------------------------------------------------------
(* Conversation composer: the first half of get_gpt_response *)

SYSTEM_PROMPT ==
    <<"You are a friendly healthcare assistant who can speak English, Hindi, and Punjabi. Provide helpful health advice but always remind users to consult doctors for serious issues. Keep responses concise and caring.">>

CONTEXT_TURNS == 6

Message(role, content) == [role |-> role, content |-> content]

\* chat_history[-6:]
LastTurns(chat_history) ==
    SubSeq(chat_history,
           IF Len(chat_history) > CONTEXT_TURNS
           THEN Len(chat_history) - CONTEXT_TURNS + 1 ELSE 1,
           Len(chat_history))

TurnMessages(chat) ==
    (IF chat.user # <<>> THEN <<Message("user", chat.user)>> ELSE <<>>)
    \o (IF chat.bot # <<>> THEN <<Message("assistant", chat.bot)>> ELSE <<>>)

RECURSIVE ContextMessages(_)
ContextMessages(chats) ==
    IF chats = <<>> THEN <<>>
    ELSE TurnMessages(Head(chats)) \o ContextMessages(Tail(chats))

compose_WholeHistory(user_input, chat_history) ==
    <<Message("system", SYSTEM_PROMPT)>>
    \o ContextMessages(chat_history)
    \o <<Message("user", user_input)>>

compose(user_input, chat_history) ==
    <<Message("system", SYSTEM_PROMPT)>>
    \o ContextMessages(LastTurns(chat_history))
    \o <<Message("user", user_input)>>

-----------------------------------------------------------------------------
(* Model gateway: the second half of get_gpt_response *)

AUTH_WARNING == <<"API authentication failed. Please check your OpenRouter API key.">>
CREDIT_WARNING == <<"API credits exhausted. Please add credits to your OpenRouter account.">>
RATE_WARNING == <<"Too many requests. Please wait a moment and try again.">>
TIMEOUT_WARNING == <<"Request timed out. Please try again.">>
GENERIC_WARNING == <<"Something went wrong, please try again.">>

WARNINGS ==
    {AUTH_WARNING, CREDIT_WARNING, RATE_WARNING, TIMEOUT_WARNING, GENERIC_WARNING}

T401 == <<"4", "0", "1">>
T402 == <<"4", "0", "2">>
T429 == <<"4", "2", "9">>
TAuthentication == <<"a", "u", "t", "h", "e", "n", "t", "i", "c", "a", "t", "i", "o", "n">>
TCredit == <<"c", "r", "e", "d", "i", "t">>
TRateLimit == <<"r", "a", "t", "e", " ", "l", "i", "m", "i", "t">>
TTimeout == <<"t", "i", "m", "e", "o", "u", "t">>

classify_TimeoutBeforeRate(error_msg) ==
    IF Contains(T401, error_msg) \/ Contains(TAuthentication, lower(error_msg))
    THEN AUTH_WARNING
    ELSE IF Contains(T402, error_msg) \/ Contains(TCredit, lower(error_msg))
    THEN CREDIT_WARNING
    ELSE IF Contains(TTimeout, lower(error_msg))
    THEN TIMEOUT_WARNING
    ELSE IF Contains(T429, error_msg) \/ Contains(TRateLimit, lower(error_msg))
    THEN RATE_WARNING
    ELSE GENERIC_WARNING

classify_NoFallback(error_msg) ==
    IF Contains(T401, error_msg) \/ Contains(TAuthentication, lower(error_msg))
    THEN AUTH_WARNING
    ELSE IF Contains(T402, error_msg) \/ Contains(TCredit, lower(error_msg))
    THEN CREDIT_WARNING
    ELSE IF Contains(T429, error_msg) \/ Contains(TRateLimit, lower(error_msg))
    THEN RATE_WARNING
    ELSE IF Contains(TTimeout, lower(error_msg))
    THEN TIMEOUT_WARNING
    ELSE error_msg

\* the except branch: the warning for str(e)
classify(error_msg) ==
    IF Contains(T401, error_msg) \/ Contains(TAuthentication, lower(error_msg))
    THEN AUTH_WARNING
    ELSE IF Contains(T402, error_msg) \/ Contains(TCredit, lower(error_msg))
    THEN CREDIT_WARNING
    ELSE IF Contains(T429, error_msg) \/ Contains(TRateLimit, lower(error_msg))
    THEN RATE_WARNING
    ELSE IF Contains(TTimeout, lower(error_msg))
    THEN TIMEOUT_WARNING
    ELSE GENERIC_WARNING

\* str(e) when message.content is None and .strip() is called on it
NONE_STRIP_ERROR == <<"'", "N", "o", "n", "e", "T", "y", "p", "e", "'", " ", "o", "b", "j", "e", "c", "t", " ", "h", "a", "s", " ", "n", "o", " ", "a", "t", "t", "r", "i", "b", "u", "t", "e", " ", "'", "s", "t", "r", "i", "p", "'">>

\* What the upstream call can do: return a completion with a text, return
\* one whose content is None, or raise an error with a message.
Completion(content) == [kind |-> "completion", text |-> content]
NullCompletion == [kind |-> "null", text |-> <<>>]
UpstreamError(error_msg) == [kind |-> "error", text |-> error_msg]

\* the reply get_gpt_response returns for an outcome of the upstream call
gateway_reply(outcome) ==
    CASE outcome.kind = "completion" -> strip(outcome.text)
      [] outcome.kind = "null" -> classify(NONE_STRIP_ERROR)
      [] outcome.kind = "error" -> classify(outcome.text)

UpstreamFailed(outcome) == outcome.kind # "completion"

-----------------------------------------------------------------------------
(* HTTP surface: requests, responses and the workers serving them *)

Workers == {1, 2}

\* The JSON body of POST /api/chat: json is FALSE when request.get_json()
\* gives no object; a body without "message" reads as the empty message.
BadBody == [json |-> FALSE, message |-> <<>>]
Body(message) == [json |-> TRUE, message |-> message]

RequestBodies ==
    {BadBody,
     Body(<<>>),
     Body(<<" ", "\n">>),
     Body(<<" ", "h", "i", " ">>),
     Body(<<"C", "h", "e", "s", "t", "-", "p", "a", "i", "n">>),
     Body(<<"m", "y", " ", "C", "H", "E", "S", "T", " ", "P", "a", "i", "n">>),
     Body(<<"U+092C", "U+0947", "U+0939", "U+094B", "U+0936", "U+0940">>)}

UpstreamOutcomes ==
    {Completion(<<" ", "o", "k", "\n">>),
     Completion(<<" ", " ">>),
     NullCompletion,
     UpstreamError(<<"E", "r", "r", "o", "r", " ", "c", "o", "d", "e", ":", " ", "4", "0", "1">>),
     UpstreamError(<<"I", "n", "s", "u", "f", "f", "i", "c", "i", "e", "n", "t", " ", "c", "r", "e", "d", "i", "t", "s">>),
     UpstreamError(<<"E", "r", "r", "o", "r", " ", "c", "o", "d", "e", ":", " ", "4", "2", "9">>),
     UpstreamError(<<"R", "e", "a", "d", " ", "T", "i", "m", "e", "o", "u", "t">>),
     UpstreamError(<<"R", "e", "q", "u", "e", "s", "t", " ", "t", "i", "m", "e", "d", " ", "o", "u", "t", ".">>)}

\* the inputs of the store and threaded scenarios
StoreBodies == {Body(<<" ", "\n">>), Body(<<" ", "h", "i", " ">>), Body(<<"m", "y", " ", "C", "H", "E", "S", "T", " ", "P", "a", "i", "n">>)}
StoreOutcomes == {Completion(<<" ", "o", "k", "\n">>), UpstreamError(<<"E", "r", "r", "o", "r", " ", "c", "o", "d", "e", ":", " ", "4", "2", "9">>)}

EMPTY_MESSAGE_ERROR == <<"Message cannot be empty">>
SERVER_ERROR == <<"Something went wrong. Please try again.">>

IdleRequest ==
    [pc |-> "idle", body |-> BadBody, user_message |-> <<>>,
     chat_history |-> <<>>, is_emergency |-> FALSE, messages |-> <<>>,
     bot_response |-> <<>>, called |-> FALSE, failed |-> FALSE]

\* A response: route and status, the body fields of every route, and what
\* the handler did to produce it (called: the upstream call was made;
\* failed: it did not return a text; written: the list handed to
\* save_chat_history; stored: that write succeeded).
NoResponse ==
    [route |-> "none", status |-> 0, body |-> BadBody, error |-> <<>>,
     response |-> <<>>, is_emergency |-> FALSE, timestamp |-> 0,
     history |-> <<>>, success |-> FALSE,
     called |-> FALSE, failed |-> FALSE, written |-> <<>>, stored |-> FALSE]

Busy(p) == req[p].pc # "idle"
InProgress == Cardinality({p \in Workers : Busy(p)})

\* the readings datetime.now() can give
Readings == 0..MaxClock

\* POST /api/chat, from the request to the load and the detector
ChatReceive(p, body, r) ==
    /\ ~Busy(p)
    /\ \A q \in Workers : q < p => Busy(q)
    /\ overlapped' = (overlapped \/ \E q \in Workers \ {p} : Busy(q))
    /\ LET user_message == strip(body.message) IN
       IF ~body.json
       THEN /\ last' = [NoResponse EXCEPT !.route = "chat", !.status = 500,
                                          !.body = body, !.error = SERVER_ERROR]
            /\ nreq' = nreq + 1
            /\ UNCHANGED <<req, faulted>>
       ELSE IF user_message = <<>>
       THEN /\ last' = [NoResponse EXCEPT !.route = "chat", !.status = 400,
                                          !.body = body,
                                          !.error = EMPTY_MESSAGE_ERROR]
            /\ nreq' = nreq + 1
            /\ UNCHANGED <<req, faulted>>
       ELSE LET chat_history == load_chat_history(file, r)
                is_emergency == detect_emergency(user_message)
            IN /\ req' = [req EXCEPT ![p] =
                     [pc |-> IF is_emergency THEN "respond" ELSE "calling",
                      body |-> body,
                      user_message |-> user_message,
                      chat_history |-> chat_history,
                      is_emergency |-> is_emergency,
                      messages |-> IF is_emergency THEN <<>>
                                   ELSE compose(user_message, chat_history),
                      bot_response |-> IF is_emergency THEN EMERGENCY_REPLY
                                       ELSE <<>>,
                      called |-> ~is_emergency,
                      failed |-> FALSE]]
               /\ faulted' = (faulted \/ ReadFailed(file, r))
               /\ UNCHANGED <<last, nreq>>
    /\ UNCHANGED <<file, clock, log, stepped>>
    /\ UNCHANGED <<composerVars, gatewayVars, diagVars>>

\* the upstream call of get_gpt_response comes back
GatewayReturn(p, outcome) ==
    /\ req[p].pc = "calling"
    /\ req' = [req EXCEPT ![p].pc = "respond",
                          ![p].bot_response = gateway_reply(outcome),
                          ![p].failed = UpstreamFailed(outcome)]
    /\ UNCHANGED <<file, clock, last, nreq, log, overlapped, faulted, stepped>>
    /\ UNCHANGED <<composerVars, gatewayVars, diagVars>>

append_entry_Front(chat_history, chat_entry) == <<chat_entry>> \o chat_history

append_entry_Alone(chat_history, chat_entry) == <<chat_entry>>

\* chat_history.append(chat_entry)
append_entry(chat_history, chat_entry) == Append(chat_history, chat_entry)

\* POST /api/chat, from the chat entry to the response; now is the reading
\* of datetime.now()
ChatSave(p, now, w) ==
    /\ req[p].pc = "respond"
    /\ LET chat_entry == Turn(req[p].user_message, req[p].bot_response,
                              now, req[p].is_emergency)
           chat_history == append_entry(req[p].chat_history, chat_entry)
       IN /\ file' = save_chat_history(file, chat_history, w)
          /\ last' = [NoResponse EXCEPT !.route = "chat", !.status = 200,
                                        !.body = req[p].body,
                                        !.response = req[p].bot_response,
                                        !.is_emergency = req[p].is_emergency,
                                        !.timestamp = chat_entry.timestamp,
                                        !.called = req[p].called,
                                        !.failed = req[p].failed,
                                        !.written = chat_history,
                                        !.stored = (w = "ok")]
          /\ log' = Append(log, chat_entry)
    /\ clock' = now
    /\ stepped' = (stepped \/ now < clock)
    /\ nreq' = nreq + 1
    /\ req' = [req EXCEPT ![p] = IdleRequest]
    /\ faulted' = (faulted \/ w # "ok")
    /\ UNCHANGED overlapped
    /\ UNCHANGED <<composerVars, gatewayVars, diagVars>>

\* GET /api/history
get_history(r) ==
    /\ \E p \in Workers : ~Busy(p)
    /\ last' = [NoResponse EXCEPT !.route = "history", !.status = 200,
                                  !.history = load_chat_history(file, r)]
    /\ nreq' = nreq + 1
    /\ overlapped' = (overlapped \/ \E q \in Workers : Busy(q))
    /\ faulted' = (faulted \/ ReadFailed(file, r))
    /\ UNCHANGED <<file, clock, req, log, stepped>>
    /\ UNCHANGED <<composerVars, gatewayVars, diagVars>>

\* POST /api/clear_history: save_chat_history never raises, so the handler
\* always answers success
clear_history(w) ==
    /\ \E p \in Workers : ~Busy(p)
    /\ file' = save_chat_history(file, <<>>, w)
    /\ last' = [NoResponse EXCEPT !.route = "clear", !.status = 200,
                                  !.success = TRUE, !.stored = (w = "ok")]
    /\ nreq' = nreq + 1
    /\ log' = IF w = "open_error" THEN log ELSE <<>>
    /\ overlapped' = (overlapped \/ \E q \in Workers : Busy(q))
    /\ faulted' = (faulted \/ w # "ok")
    /\ UNCHANGED <<clock, req, stepped>>
    /\ UNCHANGED <<composerVars, gatewayVars, diagVars>>

InitHttp ==
    /\ file = NoFile
    /\ clock = 0
    /\ req = [p \in Workers |-> IdleRequest]
    /\ last = NoResponse
    /\ nreq = 0
    /\ log = <<>>
    /\ overlapped = FALSE
    /\ faulted = FALSE
    /\ stepped = FALSE

NoComposer == cHistory = <<>> /\ cInput = <<>> /\ cMessages = <<>>
NoGateway == gError = <<>> /\ gReply = <<>>
NoDiag == apiKey = [set |-> FALSE, value |-> <<>>] /\ diag = [served |-> FALSE]

Init == InitHttp /\ NoComposer /\ NoGateway /\ NoDiag

-----------------------------------------------------------------------------
(* Diagnostics: GET /api/test *)

SITE_URL == <<"https://ai-1-itlj.onrender.com">>
MODEL_ID == <<"openai/gpt-4o-mini">>
KEY_PREFIX_LEN == 20

\* os.getenv gives None (set is FALSE) or the text of the variable
NoKey == [set |-> FALSE, value |-> <<>>]
Key(value) == [set |-> TRUE, value |-> value]

\* bool(OPENAI_API_KEY)
Truthy(key) == key.set /\ key.value # <<>>

\* OPENAI_API_KEY[:20] if OPENAI_API_KEY else None
api_key_prefix(key) ==
    IF Truthy(key)
    THEN [null |-> FALSE,
          text |-> SubSeq(key.value, 1,
                          IF Len(key.value) < KEY_PREFIX_LEN
                          THEN Len(key.value) ELSE KEY_PREFIX_LEN)]
    ELSE [null |-> TRUE, text |-> <<>>]

test_api ==
    /\ ~diag.served
    /\ diag' = [served |-> TRUE,
                status |-> "ok",
                site_url |-> SITE_URL,
                api_key_set |-> Truthy(apiKey),
                api_key_prefix |-> api_key_prefix(apiKey),
                model |-> MODEL_ID]
    /\ UNCHANGED <<apiKey, httpVars, composerVars, gatewayVars>>

\* the composer applied to the transcript and the message given
Compose ==
    /\ cMessages = <<>>
    /\ cMessages' = compose(cInput, cHistory)
    /\ UNCHANGED <<cHistory, cInput, httpVars, gatewayVars, diagVars>>

\* the except branch of get_gpt_response applied to the error text given
Classify ==
    /\ gReply = <<>>
    /\ gReply' = gateway_reply(UpstreamError(gError))
    /\ UNCHANGED <<gError, httpVars, composerVars, diagVars>>

-----------------------------------------------------------------------------
(* Scenarios.  A run starts at most `n` requests. *)

MayStart(n) == nreq + InProgress < n

\* One request at a time: every request is served by the same worker and
\* runs to its response before the next one starts.
SerialWorkers == {1}

\* The chat scenario: one request at a time, every kind of body and of
\* upstream outcome, a file that can fail, a clock that advances by one
\* from one response to the next.
Next ==
    \/ \E p \in SerialWorkers, body \in RequestBodies, r \in ReadOutcomes :
           MayStart(MaxChatRequests) /\ ChatReceive(p, body, r)
    \/ \E p \in SerialWorkers, outcome \in UpstreamOutcomes :
           GatewayReturn(p, outcome)
    \/ \E p \in SerialWorkers, w \in WriteOutcomes : ChatSave(p, nreq, w)
    \/ \E r \in ReadOutcomes : MayStart(MaxChatRequests) /\ get_history(r)
    \/ \E w \in WriteOutcomes : MayStart(MaxChatRequests) /\ clear_history(w)

Spec == Init /\ [][Next]_vars

\* The store scenario: one request at a time, a file that can fail, a wall
\* clock that can give any reading.
NextStore ==
    \/ \E p \in SerialWorkers, body \in StoreBodies, r \in ReadOutcomes :
           MayStart(MaxRequests) /\ ChatReceive(p, body, r)
    \/ \E p \in SerialWorkers, outcome \in StoreOutcomes :
           GatewayReturn(p, outcome)
    \/ \E p \in SerialWorkers, now \in Readings, w \in WriteOutcomes :
           ChatSave(p, now, w)
    \/ \E r \in ReadOutcomes : MayStart(MaxRequests) /\ get_history(r)
    \/ \E w \in WriteOutcomes : MayStart(MaxRequests) /\ clear_history(w)

SpecStore == Init /\ [][NextStore]_vars

\* The threaded scenario: two workers whose steps interleave.
NextThreaded ==
    \/ \E p \in Workers, body \in StoreBodies, r \in ReadOutcomes :
           MayStart(MaxChatRequests) /\ ChatReceive(p, body, r)
    \/ \E p \in Workers, outcome \in StoreOutcomes : GatewayReturn(p, outcome)
    \/ \E p \in Workers, now \in Readings, w \in WriteOutcomes : ChatSave(p, now, w)
    \/ \E r \in ReadOutcomes : MayStart(MaxChatRequests) /\ get_history(r)
    \/ \E w \in WriteOutcomes : MayStart(MaxChatRequests) /\ clear_history(w)

SpecThreaded == Init /\ [][NextThreaded]_vars

-----------------------------------------------------------------------------
(* The composer on its own *)

TurnKinds == {"both", "user", "bot", "neither"}

\* the turn at place i of a transcript: its texts name the place
PlacedTurn(i, kind) ==
    Turn(IF kind \in {"both", "user"} THEN <<"q", ASCII_LOWER[i]>> ELSE <<>>,
         IF kind \in {"both", "bot"} THEN <<"r", ASCII_LOWER[i]>> ELSE <<>>,
         i, FALSE)

ComposerHistories ==
    UNION {UNION {{[i \in 1..(e + n) |->
                      PlacedTurn(i, IF i <= e THEN "both" ELSE kinds[i - e])] :
                   kinds \in [1..n -> TurnKinds]} :
                  n \in 0..MaxVaried} :
           e \in 0..MaxEarlier}

ComposerInputs == {<<"h", "i">>}

InitCompose ==
    /\ InitHttp /\ NoGateway /\ NoDiag
    /\ cHistory \in ComposerHistories
    /\ cInput \in ComposerInputs
    /\ cMessages = <<>>

SpecCompose == InitCompose /\ [][Compose]_vars

-----------------------------------------------------------------------------
(* The gateway's classification on its own *)

ErrorFragments ==
    {<<"4", "0", "1">>, <<"4", "0", "2">>, <<"4", "2", "9">>, <<"4", "0">>, <<"1", " ">>,
     <<"A", "U", "T", "H", "E", "N", "T", "I", "C", "A", "T", "I", "O", "N">>, <<"C", "r", "e", "d", "i", "t">>, <<"R", "a", "t", "e", " ", "L", "i", "m", "i", "t">>, <<"T", "i", "m", "e", "O", "u", "t">>}

RECURSIVE Joined(_)
Joined(n) ==
    IF n = 0 THEN {<<>>}
    ELSE Joined(n - 1) \cup {f \o rest : f \in ErrorFragments, rest \in Joined(n - 1)}

ErrorTexts == Joined(MaxFragments)

InitGateway ==
    /\ InitHttp /\ NoComposer /\ NoDiag
    /\ gError \in ErrorTexts
    /\ gReply = <<>>

SpecGateway == InitGateway /\ [][Classify]_vars

-----------------------------------------------------------------------------
(* The diagnostics endpoint on its own *)

ApiKeys ==
    {NoKey} \cup
    {Key([i \in 1..n |-> IF i <= f THEN "s" ELSE "k"]) : n \in 0..MaxKeyLen, f \in 0..MaxKeyLen}

InitDiag ==
    /\ InitHttp /\ NoComposer /\ NoGateway
    /\ apiKey \in ApiKeys
    /\ diag = [served |-> FALSE]

SpecDiag == InitDiag /\ [][test_api]_vars

-----------------------------------------------------------------------------
(* Properties of the HTTP surface *)

IsBlank(text) == \A i \in 1..Len(text) : text[i] \in WHITESPACE

\* keyword occurs in text, letter case ignored symbol by symbol
OccursAnyCase(keyword, text) ==
    \E i \in 0..(Len(text) - Len(keyword)) :
        \A j \in 1..Len(keyword) : LowerSym(text[i + j]) = LowerSym(keyword[j])

HasEmergencyKeyword(text) ==
    \E k \in 1..Len(EMERGENCY_KEYWORDS) : OccursAnyCase(EMERGENCY_KEYWORDS[k], text)

\* what a reader of the file gets
Persisted(f) == IF f.kind = "ok" THEN f.data ELSE <<>>

IsPrefix(a, b) == Len(a) <= Len(b) /\ SubSeq(b, 1, Len(a)) = a

NonDecreasing(history) ==
    \A i \in 1..(Len(history) - 1) : history[i].timestamp <= history[i + 1].timestamp

\* the step sends the response of a request of this route
Responds(route) == nreq' = nreq + 1 /\ last'.route = route

\* C1: a POST /api/chat whose message is empty or only whitespace is answered
\* 400 with an error, leaves the file as it was, appends no turn and makes no
\* upstream call.
C1_BlankMessageRejected ==
    [][(Responds("chat") /\ last'.body.json /\ IsBlank(last'.body.message))
         => /\ last'.status = 400
            /\ last'.error # <<>>
            /\ file' = file
            /\ log' = log
            /\ ~last'.called
            /\ \A p \in Workers : req'[p] = req[p]]_vars

C1_Witness ==
    /\ last.route = "chat" /\ last.status = 400
    /\ last.body.message # <<>>
    /\ Persisted(file) # <<>>

\* C2: a chat whose trimmed message holds an emergency keyword in any letter
\* case is answered with the fixed emergency text and is_emergency true, in
\* the response and in the recorded turn, without an upstream call; the flag
\* is true for no other message.
C2_EmergencyReply ==
    /\ (last.route = "chat" /\ last.status = 200) =>
         LET turn == last.written[Len(last.written)] IN
         /\ last.is_emergency = HasEmergencyKeyword(turn.user)
         /\ turn.is_emergency = last.is_emergency
         /\ last.is_emergency =>
              /\ last.response = EMERGENCY_REPLY
              /\ turn.bot = EMERGENCY_REPLY
              /\ ~last.called
         /\ ~last.is_emergency => last.called
    /\ \A i \in 1..Len(Persisted(file)) :
         Persisted(file)[i].is_emergency = HasEmergencyKeyword(Persisted(file)[i].user)

C2_Witness ==
    /\ last.route = "chat" /\ last.status = 200 /\ last.is_emergency
    /\ lower(last.body.message) # last.body.message
    /\ last.stored
    /\ Persisted(file)[Len(Persisted(file))].is_emergency

C5_ClearThenHistoryEmpty ==
    [][(last.route = "clear" /\ last.success /\ Responds("history"))
         => last'.history = <<>>]_vars

-----------------------------------------------------------------------------
(* Properties of the composer, the gateway and the diagnostics *)

\* the last min(6, length) turns
Window(history) ==
    LET n == Len(history)
        m == IF n < 6 THEN n ELSE 6
    IN [j \in 1..m |-> history[n - m + j]]

HasUser(turn) == turn.user # <<>>
HasBot(turn) == turn.bot # <<>>

\* messages that the turns before place j of the window give
RECURSIVE GivenBefore(_, _)
GivenBefore(window, j) ==
    IF j <= 1 THEN 0
    ELSE GivenBefore(window, j - 1)
         + (IF HasUser(window[j - 1]) THEN 1 ELSE 0)
         + (IF HasBot(window[j - 1]) THEN 1 ELSE 0)

\* C6: the outbound list is one system message, then for each of the last
\* min(6, length) turns, in order, a user message when its user text is not
\* empty followed by an assistant message when its bot text is not empty,
\* then one user message with the new message.
C6_OutboundMessages ==
    cMessages # <<>> =>
        LET window == Window(cHistory)
            given == GivenBefore(window, Len(window) + 1)
        IN /\ Len(cMessages) = given + 2
           /\ cMessages[1] = [role |-> "system", content |-> SYSTEM_PROMPT]
           /\ cMessages[given + 2] = [role |-> "user", content |-> cInput]
           /\ Cardinality({i \in 1..Len(cMessages) : cMessages[i].role = "system"}) = 1
           /\ \A j \in 1..Len(window) :
                LET at == 1 + GivenBefore(window, j) IN
                /\ HasUser(window[j]) =>
                     cMessages[at + 1] = [role |-> "user", content |-> window[j].user]
                /\ HasBot(window[j]) =>
                     cMessages[at + 1 + (IF HasUser(window[j]) THEN 1 ELSE 0)]
                       = [role |-> "assistant", content |-> window[j].bot]

C6_Witness ==
    /\ Len(cHistory) = 10
    /\ Len(cMessages) = 14
    /\ cMessages[2].content = cHistory[5].user

\* C7 as claimed: an error text that contains "429" gives the rate-limit
\* warning, one that contains "401" gives the authentication warning.
C7_Classification ==
    gReply # <<>> =>
        /\ Contains(T429, gError) => gReply = RATE_WARNING
        /\ Contains(T401, gError) => gReply = AUTH_WARNING

\* C7 amended: an error text that contains "401" gives the authentication
\* warning; one that contains "429" and none of "401", "402", and, in any
\* letter case, "authentication", "credit", gives the rate-limit warning.
C7_ClassificationInOrder ==
    gReply # <<>> =>
        /\ Contains(T401, gError) => gReply = AUTH_WARNING
        /\ (/\ Contains(T429, gError)
            /\ ~Contains(T401, gError)
            /\ ~OccursAnyCase(TAuthentication, gError)
            /\ ~Contains(T402, gError)
            /\ ~OccursAnyCase(TCredit, gError)) => gReply = RATE_WARNING

C7_Witness ==
    /\ gReply = RATE_WARNING
    /\ Contains(T429, gError)
    /\ OccursAnyCase(TTimeout, gError)

\* C8: /api/test says a key is set exactly when one is configured, and for a
\* configured key returns a proper prefix of it, never the whole key.
C8_KeyNeverWhole ==
    diag.served =>
        /\ diag.api_key_set = (apiKey.set /\ apiKey.value # <<>>)
        /\ diag.api_key_set =>
             /\ ~diag.api_key_prefix.null
             /\ IsPrefix(diag.api_key_prefix.text, apiKey.value)
             /\ diag.api_key_prefix.text # apiKey.value

====
